---- MODULE Spec2Model ----
(***************************************************************************)
(* Profile-to-row normalisation of Argo float files, as implemented twice: *)
(*   extract_indian_ocean_data.py  (variant "extract": CSV, filtered)      *)
(*   ingest_postgres_only.py       (variant "ingest": PostgreSQL)          *)
(*                                                                         *)
(* Text is a sequence of one-character strings.  A floating-point number   *)
(* is a record [k, v]: k says finite / NaN / +inf / -inf, v is the value   *)
(* of a finite number.  A netCDF masked array is a record [nomask, twoD,   *)
(* d, m]: d[j] is the data of level j (one number for a 1-D variable, a    *)
(* row of numbers for a 2-D one), m[j] the mask flags in the same shape,   *)
(* nomask says the array carries numpy's scalar "nomask" instead of m.     *)
(*                                                                         *)
(* Modelling assumptions on the inputs (all are stated where used):        *)
(*   - the data of a role is the data of the variable resolved for it;     *)
(*   - temperature and salinity have as many levels as pressure;           *)
(*   - variables read per profile have rank >= 1;                          *)
(*   - time offsets are non-negative and whole milliseconds.               *)
(***************************************************************************)
EXTENDS Integers, Sequences, FiniteSets, TLC

\* ------------------------------------------------------------------ bounds
MaxLevels == 2
MaxProfiles == 2
MaxFiles == 2
MaxVars == 2

\* ------------------------------------------------- the program's constants
lon_min == 20
lon_max == 140
lat_min == -70
lat_max == 30
year_min == 2020
year_max == 2025

\* -------------------------------------------------------------------- text
UpperLetters ==
  <<"A","B","C","D","E","F","G","H","I","J","K","L","M",
    "N","O","P","Q","R","S","T","U","V","W","X","Y","Z">>
LowerLetters ==
  <<"a","b","c","d","e","f","g","h","i","j","k","l","m",
    "n","o","p","q","r","s","t","u","v","w","x","y","z">>
DigitChars == <<"0","1","2","3","4","5","6","7","8","9">>

\* str.lower() on one character
LowerTable ==
  [c \in {UpperLetters[n] : n \in DOMAIN UpperLetters} |->
     LowerLetters[CHOOSE n \in DOMAIN UpperLetters : UpperLetters[n] = c]]
LowerChar(c) == IF c \in DOMAIN LowerTable THEN LowerTable[c] ELSE c

\* str.lower()
Lower(s) == [n \in DOMAIN s |-> LowerChar(s[n])]

\* str.upper() on one character; used to build inputs in another letter case
UpperTable ==
  [c \in {LowerLetters[n] : n \in DOMAIN LowerLetters} |->
     UpperLetters[CHOOSE n \in DOMAIN LowerLetters : LowerLetters[n] = c]]
UpperChar(c) == IF c \in DOMAIN UpperTable THEN UpperTable[c] ELSE c

IsDigit(c) == \E n \in DOMAIN DigitChars : DigitChars[n] = c
DigitVal(c) == (CHOOSE n \in DOMAIN DigitChars : DigitChars[n] = c) - 1

\* s[n:] with Python's clipping
Drop(s, n) == IF n >= Len(s) THEN <<>> ELSE SubSeq(s, n + 1, Len(s))

StartsWith(s, p) == Len(p) <= Len(s) /\ SubSeq(s, 1, Len(p)) = p

\* str.strip(): whitespace removed at both ends
RECURSIVE LStrip(_)
LStrip(s) == IF s # <<>> /\ Head(s) = " " THEN LStrip(Tail(s)) ELSE s
RECURSIVE RStrip(_)
RStrip(s) ==
  IF s # <<>> /\ s[Len(s)] = " " THEN RStrip(SubSeq(s, 1, Len(s) - 1)) ELSE s
Strip(s) == RStrip(LStrip(s))

\* str.replace(p, ''): every non-overlapping occurrence of p, left to right
RECURSIVE RemoveAll(_, _)
RemoveAll(s, p) ==
  IF s = <<>> THEN <<>>
  ELSE IF StartsWith(s, p) THEN RemoveAll(Drop(s, Len(p)), p)
  ELSE <<Head(s)>> \o RemoveAll(Tail(s), p)

\* os.path.basename: what follows the last "/"
RECURSIVE Basename(_)
Basename(path) ==
  IF \E n \in DOMAIN path : path[n] = "/"
  THEN Basename(Drop(path, CHOOSE n \in DOMAIN path :
                             path[n] = "/" /\ \A q \in 1..(n-1) : path[q] # "/"))
  ELSE path

\* re.search(r'([0-9]{7,8})', s).group(1): the leftmost run of 7 digits,
\* extended greedily to 8; <<>> stands for "no match"
DigitRunAt(s, n) == n + 6 <= Len(s) /\ \A q \in n..(n + 6) : IsDigit(s[q])
SearchDigitRun(s) ==
  IF \E n \in DOMAIN s : DigitRunAt(s, n)
  THEN LET n == CHOOSE a \in DOMAIN s :
                  DigitRunAt(s, a) /\ \A q \in 1..(a-1) : ~DigitRunAt(s, q)
       IN  IF n + 7 <= Len(s) /\ IsDigit(s[n + 7])
           THEN SubSeq(s, n, n + 7) ELSE SubSeq(s, n, n + 6)
  ELSE <<>>

\* Python's None where a text is expected (a resolved name, a platform id)
None == <<"None-object">>

\* ----------------------------------------------------------------- numbers
Fin(n) == [k |-> "fin", v |-> n]
NaN == [k |-> "nan", v |-> 0]
PInf == [k |-> "pinf", v |-> 0]
NInf == [k |-> "ninf", v |-> 0]
\* Python's None where a number is expected
NoneVal == [k |-> "none", v |-> 0]
\* the conversion raised (ValueError out of safe_float_conversion)
RaiseVal == [k |-> "raise", v |-> 0]

\* x < n, n <= x and x <= n for a float x and an integer n, as IEEE compares
FloatLt(x, n) == (x.k = "fin" /\ x.v < n) \/ x.k = "ninf"
FloatGe(x, n) == (x.k = "fin" /\ x.v >= n) \/ x.k = "pinf"
FloatLe(x, n) == (x.k = "fin" /\ x.v <= n) \/ x.k = "ninf"

\* ------------------------------------------------------------ masked arrays
\* a 1-D masked array over the numbers ds with the mask flags ms
Arr1(ds, ms) ==
  [nomask |-> FALSE, twoD |-> FALSE,
   d |-> [n \in DOMAIN ds |-> <<ds[n]>>], m |-> [n \in DOMAIN ms |-> <<ms[n]>>]]
\* a 1-D masked array with no masked element, carrying numpy's nomask
Arr1NoMask(ds) ==
  [nomask |-> TRUE, twoD |-> FALSE,
   d |-> [n \in DOMAIN ds |-> <<ds[n]>>], m |-> [n \in DOMAIN ds |-> <<FALSE>>]]

\* len(array)
ArrLen(array) == Len(array.d)

\* array[idx], idx counted from 0: numpy.ma.masked or a plain number for a
\* 1-D array, a masked row for a 2-D one
GetItem(array, idx) ==
  IF array.twoD
  THEN [kind |-> "row", nomask |-> array.nomask,
        d |-> array.d[idx + 1], m |-> array.m[idx + 1]]
  ELSE IF ~array.nomask /\ array.m[idx + 1][1]
  THEN [kind |-> "masked", nomask |-> FALSE, d |-> <<Fin(0)>>, m |-> <<TRUE>>]
  ELSE [kind |-> "scalar", nomask |-> TRUE,
        d |-> array.d[idx + 1], m |-> <<FALSE>>]

\* np.ma.masked_all_like(pressure)
masked_all_like(array) ==
  [nomask |-> FALSE, twoD |-> array.twoD,
   d |-> [n \in DOMAIN array.d |-> [q \in DOMAIN array.d[n] |-> Fin(0)]],
   m |-> [n \in DOMAIN array.d |-> [q \in DOMAIN array.d[n] |-> TRUE]]]

\* mask_check(array, idx): indexing nomask, or past the end, raises inside
\* the function's own try and gives False
mask_check(array, idx) ==
  IF array.nomask \/ idx + 1 > Len(array.m) THEN FALSE
  ELSE IF array.twoD THEN \E q \in DOMAIN array.m[idx + 1] : array.m[idx + 1][q]
  ELSE array.m[idx + 1][1]

\* np.isnan on one number
IsNaN(x) == x.k = "nan"

\* safe_isnan(value)
safe_isnan(value) ==
  CASE value.kind = "masked" -> TRUE
    [] value.kind = "row" ->
         \A q \in DOMAIN value.d :
           (~value.nomask /\ value.m[q]) \/ IsNaN(value.d[q])
    [] OTHER -> IsNaN(value.d[1])

\* The body shared by both safe_float_conversion functions; "failed" is
\* what the function gives when it finds no value or float() raises.
FloatConversion(value, failed) ==
  CASE value.kind = "scalar" -> value.d[1]
    [] value.kind = "masked" -> NaN
    [] OTHER ->
         IF Len(value.d) = 1
         THEN (IF ~value.nomask /\ value.m[1] THEN NaN ELSE value.d[1])
         ELSE IF value.nomask THEN failed
         ELSE IF \E q \in DOMAIN value.d : ~value.m[q]
         THEN value.d[CHOOSE q \in DOMAIN value.d :
                        ~value.m[q] /\ \A z \in 1..(q-1) : value.m[z]]
         ELSE failed

\* extract: safe_float_conversion returns None on failure
safe_float_conversion_extract(value) == FloatConversion(value, NoneVal)
\* ingest: safe_float_conversion raises ValueError on failure
safe_float_conversion_ingest(value) == FloatConversion(value, RaiseVal)

\* ingest: the count of unmasked pressure elements (np.sum(~pressure.mask));
\* ~nomask is the scalar True, which sums to 1
RECURSIVE CountUnmasked(_)
CountUnmasked(flags) ==
  IF flags = <<>> THEN 0
  ELSE (IF Head(flags) THEN 0 ELSE 1) + CountUnmasked(Tail(flags))
RECURSIVE CountUnmaskedRows(_)
CountUnmaskedRows(rows) ==
  IF rows = <<>> THEN 0
  ELSE CountUnmasked(Head(rows)) + CountUnmaskedRows(Tail(rows))
valid_count(pressure) ==
  IF pressure.nomask THEN 1 ELSE CountUnmaskedRows(pressure.m)

\* --------------------------------------------------------- variable resolver
\* the inner loop of find_variable_case_insensitive
RECURSIVE FirstAvailable(_, _)
FirstAvailable(target, available_vars) ==
  IF available_vars = <<>> THEN None
  ELSE IF Lower(Head(available_vars)) = Lower(target) THEN Head(available_vars)
  ELSE FirstAvailable(target, Tail(available_vars))

\* a variant with the comparison made case-sensitive
RECURSIVE FirstAvailableExact(_, _)
FirstAvailableExact(target, available_vars) ==
  IF available_vars = <<>> THEN None
  ELSE IF Head(available_vars) = target THEN Head(available_vars)
  ELSE FirstAvailableExact(target, Tail(available_vars))
RECURSIVE find_variable_case_sensitive(_, _)
find_variable_case_sensitive(target_vars, available_vars) ==
  IF target_vars = <<>> THEN None
  ELSE LET hit == FirstAvailableExact(Head(target_vars), available_vars)
       IN  IF hit # None THEN hit
           ELSE find_variable_case_sensitive(Tail(target_vars), available_vars)

RECURSIVE FindLoop(_, _)
FindLoop(target_vars, available_vars) ==
  IF target_vars = <<>> THEN None
  ELSE LET hit == FirstAvailable(Head(target_vars), available_vars)
       IN  IF hit # None THEN hit
           ELSE FindLoop(Tail(target_vars), available_vars)

find_variable_case_insensitive(target_vars, available_vars) ==
  FindLoop(target_vars, available_vars)

\* ---------------------------------------------------------- identity decoder
\* A raw platform value is [kind, b]:
\*   "bytes"   a character array; b holds its elements (one character each,
\*             or the token "\\xff" for a byte that is not UTF-8),
\*   "scalar"  a zero-rank value; b is the text of str(platform_raw.data),
\*   "str"     a value without a .data attribute; b is the text of str(it).
Undecodable == "\\xff"
NoneText == <<"N","o","n","e">>
\* a text operation raised (UnicodeDecodeError)
RaiseText == <<"raise-object">>

\* ''.join(b.decode('utf-8') ... for b in data if b != b' ' and b != ' ')
RECURSIVE JoinDecoded(_)
JoinDecoded(b) ==
  IF b = <<>> THEN <<>>
  ELSE IF Head(b) = " " THEN JoinDecoded(Tail(b))
  ELSE <<Head(b)>> \o JoinDecoded(Tail(b))
DecodeBytes(b) ==
  IF \E n \in DOMAIN b : b[n] = Undecodable THEN RaiseText
  ELSE Strip(JoinDecoded(b))

\* str(platform_raw.data) of a character array: "[b'6' b'9' ...]"
RECURSIVE ReprElements(_)
ReprElements(b) ==
  IF b = <<>> THEN <<>>
  ELSE <<"b", "'", Head(b), "'">>
         \o (IF Tail(b) = <<>> THEN <<>> ELSE <<" ">>)
         \o ReprElements(Tail(b))
ReprBytes(b) == <<"[">> \o ReprElements(b) \o <<"]">>

\* extract: "Extract platform ID"; a failed decode raises out of the profile
platform_id_extract(platform_raw) ==
  IF platform_raw.kind = "bytes" THEN DecodeBytes(platform_raw.b)
  ELSE Strip(platform_raw.b)

\* ingest: "Extract platform ID"; a failed decode falls back to str(data)
platform_id_ingest(platform_raw) ==
  IF platform_raw.kind = "bytes"
  THEN (IF DecodeBytes(platform_raw.b) = RaiseText
        THEN Strip(ReprBytes(platform_raw.b))
        ELSE DecodeBytes(platform_raw.b))
  ELSE Strip(platform_raw.b)

DotNc == <<".", "n", "c">>
NodcPrefix == <<"n", "o", "d", "c", "_">>

\* extract: "Fallback platform ID from filename"
fallback_extract(platform_id, file_path) ==
  IF platform_id = <<>> \/ platform_id = NoneText
  THEN LET filename == Basename(file_path)
           platform_match == SearchDigitRun(filename)
       IN  IF platform_match # <<>> THEN platform_match
           ELSE RemoveAll(filename, DotNc)
  ELSE platform_id

\* ingest: "Fallback: extract platform ID from filename ..."
fallback_ingest(platform_id, file_path) ==
  IF platform_id = <<>> \/ platform_id = NoneText
  THEN LET filename == Basename(file_path)
           platform_match == SearchDigitRun(filename)
       IN  IF platform_match # <<>> THEN platform_match
           ELSE RemoveAll(RemoveAll(RemoveAll(RemoveAll(filename, DotNc),
                            NodcPrefix), <<"D">>), <<"R">>)
  ELSE platform_id

\* -------------------------------------------------------------- time resolver
\* An instant is [k, day, ms]: k = "ts" for a pandas Timestamp (day counts
\* days from 1970-01-01, ms the milliseconds into the day), "nat" for NaT,
\* "raise" for a raised exception.
MsPerDay == 24 * 60 * 60 * 1000
NaT == [k |-> "nat", day |-> 0, ms |-> 0]
RaiseTime == [k |-> "raise", day |-> 0, ms |-> 0]

IsLeap(y) == (y % 4 = 0 /\ y % 100 # 0) \/ y % 400 = 0
DaysInMonth(y, mo) ==
  IF mo = 2 THEN (IF IsLeap(y) THEN 29 ELSE 28)
  ELSE IF mo \in {4, 6, 9, 11} THEN 30 ELSE 31

\* proleptic Gregorian calendar: days from 1970-01-01 to y-mo-d (y >= 1)
DaysFromCivil(y, mo, d) ==
  LET yy  == IF mo <= 2 THEN y - 1 ELSE y
      era == yy \div 400
      yoe == yy - era * 400
      mp  == IF mo > 2 THEN mo - 3 ELSE mo + 9
      doy == (153 * mp + 2) \div 5 + d - 1
      doe == yoe * 365 + yoe \div 4 - yoe \div 100 + doy
  IN  era * 146097 + doe - 719468

\* the calendar date [y, mo, d] of a day count (day >= -719468)
CivilFromDays(day) ==
  LET z   == day + 719468
      era == z \div 146097
      doe == z - era * 146097
      yoe == (doe - doe \div 1460 + doe \div 36524 - doe \div 146096) \div 365
      doy == doe - (365 * yoe + yoe \div 4 - yoe \div 100)
      mp  == (5 * doy + 2) \div 153
      d   == doy - (153 * mp + 2) \div 5 + 1
      mo  == IF mp < 10 THEN mp + 3 ELSE mp - 9
  IN  [y |-> IF mo <= 2 THEN yoe + era * 400 + 1 ELSE yoe + era * 400,
       mo |-> mo, d |-> d]

\* the number written by text[a..b]
RECURSIVE Number(_)
Number(digits) ==
  IF digits = <<>> THEN 0
  ELSE 10 * Number(SubSeq(digits, 1, Len(digits) - 1))
         + DigitVal(digits[Len(digits)])

\* ''.join(decoded REFERENCE_DATE_TIME[:]).strip()
ref_date_str(ref_date_raw) == Strip(ref_date_raw)

\* pd.to_datetime(ref_date_str, format='%Y%m%d%H%M%S'): the empty string
\* parses to NaT, a string that does not fit the layout raises
to_datetime(text) ==
  IF text = <<>> THEN NaT
  ELSE IF Len(text) # 14 \/ \E n \in DOMAIN text : ~IsDigit(text[n])
  THEN RaiseTime
  ELSE LET y  == Number(SubSeq(text, 1, 4))
           mo == Number(SubSeq(text, 5, 6))
           d  == Number(SubSeq(text, 7, 8))
           hh == Number(SubSeq(text, 9, 10))
           mi == Number(SubSeq(text, 11, 12))
           ss == Number(SubSeq(text, 13, 14))
       IN  IF y >= 1678 /\ y <= 2261 /\ mo \in 1..12 /\ d >= 1
              /\ d <= DaysInMonth(y, mo) /\ hh <= 23 /\ mi <= 59 /\ ss <= 59
           THEN [k |-> "ts", day |-> DaysFromCivil(y, mo, d),
                 ms |-> ((hh * 60 + mi) * 60 + ss) * 1000]
           ELSE RaiseTime

\* A time offset (JULD[i]) is [k, d, ms]: k as for a number or "masked",
\* d whole days and ms the milliseconds of the fractional day.
\* base_date + pd.to_timedelta(float(juld_value), unit='D')
AddOffset(base_date, juld_value) ==
  CASE base_date.k = "raise" -> RaiseTime
    [] juld_value.k \in {"pinf", "ninf"} -> RaiseTime
    [] base_date.k = "nat" \/ juld_value.k \in {"nan", "masked"} -> NaT
    [] OTHER ->
         [k |-> "ts",
          day |-> base_date.day + juld_value.d
                    + (base_date.ms + juld_value.ms) \div MsPerDay,
          ms |-> (base_date.ms + juld_value.ms) % MsPerDay]

\* measurement_date.year (NaT has no year: the comparison with it is False)
YearOf(measurement_date) == CivilFromDays(measurement_date.day).y

\* measurement_date.strftime('%Y-%m-%d %H:%M:%S'): the fields, in order
strftime(measurement_date) ==
  LET c   == CivilFromDays(measurement_date.day)
      sec == measurement_date.ms \div 1000
  IN  <<c.y, c.mo, c.d, sec \div 3600, (sec \div 60) % 60, sec % 60>>

\* -------------------------------------------------------------- profile filter
\* the year test with its upper bound left out
is_year_range_open(measurement_date) ==
  measurement_date.k = "ts" /\ year_min <= YearOf(measurement_date)

is_year_range_2020_2025(measurement_date) ==
  measurement_date.k = "ts"
  /\ year_min <= YearOf(measurement_date)
  /\ YearOf(measurement_date) <= year_max

\* the box test with the longitude's upper bound left out
is_indian_ocean_open(latitude, longitude) ==
  FloatGe(longitude, lon_min)
  /\ FloatGe(latitude, lat_min) /\ FloatLe(latitude, lat_max)

is_indian_ocean(latitude, longitude) ==
  FloatGe(longitude, lon_min) /\ FloatLe(longitude, lon_max)
  /\ FloatGe(latitude, lat_min) /\ FloatLe(latitude, lat_max)

\* the time-offset test without the NaN check
juld_invalid_masked_only(juld_value) == juld_value.k = "masked"

\* np.ma.is_masked(juld_value) or safe_isnan(juld_value)
juld_invalid(juld_value) == juld_value.k = "masked" \/ juld_value.k = "nan"

\* float(ds.variables[lat_var_name][i]): a masked coordinate becomes nan
CoordFloat(x) == IF x.k = "masked" THEN NaN ELSE x

\* ingest: np.isnan(latitude) or np.isnan(longitude)
coords_invalid(latitude, longitude) == IsNaN(latitude) \/ IsNaN(longitude)

\* ------------------------------------------------------ the canonical names
PRES_ADJUSTED ==
  <<"P","R","E","S","_","A","D","J","U","S","T","E","D">>
PRES ==
  <<"P","R","E","S">>
TEMP_ADJUSTED ==
  <<"T","E","M","P","_","A","D","J","U","S","T","E","D">>
TEMP ==
  <<"T","E","M","P">>
PSAL_ADJUSTED ==
  <<"P","S","A","L","_","A","D","J","U","S","T","E","D">>
PSAL ==
  <<"P","S","A","L">>
PLATFORM_NUMBER ==
  <<"P","L","A","T","F","O","R","M","_","N","U","M","B","E","R">>
FLOAT_SERIAL_NO ==
  <<"F","L","O","A","T","_","S","E","R","I","A","L","_","N","O">>
WMO_INST_TYPE ==
  <<"W","M","O","_","I","N","S","T","_","T","Y","P","E">>
JULD ==
  <<"J","U","L","D">>
LATITUDE ==
  <<"L","A","T","I","T","U","D","E">>
LONGITUDE ==
  <<"L","O","N","G","I","T","U","D","E">>
REFERENCE_DATE_TIME ==
  <<"R","E","F","E","R","E","N","C","E","_","D","A","T","E","_","T","I","M","E">>

pressure_aliases == <<PRES_ADJUSTED, PRES>>
temperature_aliases == <<TEMP_ADJUSTED, TEMP>>
salinity_aliases == <<PSAL_ADJUSTED, PSAL>>
platform_aliases == <<PLATFORM_NUMBER, FLOAT_SERIAL_NO, WMO_INST_TYPE>>

\* "Find variables": the eight lookups made once per file
ResolveVariables(available_vars) ==
  [pressure_var |->
     find_variable_case_insensitive(pressure_aliases, available_vars),
   temp_var |->
     find_variable_case_insensitive(temperature_aliases, available_vars),
   salinity_var |->
     find_variable_case_insensitive(salinity_aliases, available_vars),
   platform_var_name |->
     find_variable_case_insensitive(platform_aliases, available_vars),
   juld_var_name |-> find_variable_case_insensitive(<<JULD>>, available_vars),
   lat_var_name |->
     find_variable_case_insensitive(<<LATITUDE>>, available_vars),
   lon_var_name |->
     find_variable_case_insensitive(<<LONGITUDE>>, available_vars),
   ref_date_var_name |->
     find_variable_case_insensitive(<<REFERENCE_DATE_TIME>>, available_vars)]

Unresolved ==
  [pressure_var |-> None, temp_var |-> None, salinity_var |-> None,
   platform_var_name |-> None, juld_var_name |-> None, lat_var_name |-> None,
   lon_var_name |-> None, ref_date_var_name |-> None]

\* the required-variable test with the reference time left out
missing_required_no_ref(r) ==
  r.pressure_var = None \/ r.platform_var_name = None
  \/ r.juld_var_name = None \/ r.lat_var_name = None \/ r.lon_var_name = None

\* "Check required variables": not all([...]) / missing_vars non-empty
missing_required(r) ==
  r.pressure_var = None \/ r.platform_var_name = None
  \/ r.juld_var_name = None \/ r.lat_var_name = None \/ r.lon_var_name = None
  \/ r.ref_date_var_name = None

\* ------------------------------------------------------------ source files
\* A source file is [name, openable, multi, vars, ref, profiles]:
\*   name      the file's name in DATA_DIR,
\*   openable  whether nc.Dataset(file_path) succeeds,
\*   multi     whether the file has the N_PROF dimension (its size is then
\*             the number of profiles; a file without it holds one profile),
\*   vars      list(ds.variables.keys()),
\*   ref       the characters of REFERENCE_DATE_TIME,
\*   profiles  per profile [platform, juld, lat, lon, pres, temp, sal], the
\*             data of the variables resolved for those roles.
DATA_DIR == <<"t","e","s","t","_","d","a","t","a","/">>

\* os.path.join(DATA_DIR, f)
FilePath(file) == DATA_DIR \o file.name

\* num_profiles
NumProfiles(file) == IF file.multi THEN Len(file.profiles) ELSE 1

\* the profile read by index i: [i] in a multi-profile file, [0] or [:] else
ProfileAt(file, i) == file.profiles[IF file.multi THEN i + 1 ELSE 1]

\* ds.variables[name] with name None raises KeyError
lookup_fails(r) ==
  r.pressure_var = None \/ r.platform_var_name = None
  \/ r.juld_var_name = None \/ r.lat_var_name = None \/ r.lon_var_name = None
  \/ r.ref_date_var_name = None

\* the locals of one iteration of the profile loop
ProfileLocals(file, r, i, platform_id) ==
  LET prof == ProfileAt(file, i)
  IN  [platform_id |-> platform_id,
       measurement_date |->
         AddOffset(to_datetime(ref_date_str(file.ref)), prof.juld),
       latitude |-> CoordFloat(prof.lat),
       longitude |-> CoordFloat(prof.lon),
       pressure |-> prof.pres,
       temperature |->
         IF r.temp_var # None THEN prof.temp ELSE masked_all_like(prof.pres),
       salinity |->
         IF r.salinity_var # None THEN prof.sal
         ELSE masked_all_like(prof.pres)]

\* extract: the profile loop's body up to the level loop.  "accept" enters
\* the level loop, "skip" is a continue, "error" the except-continue.
profile_status_extract(file, r, i) ==
  LET prof == ProfileAt(file, i)
      loc  == ProfileLocals(file, r, i, <<>>)
  IN  IF lookup_fails(r) THEN "error"
      ELSE IF platform_id_extract(prof.platform) = RaiseText THEN "error"
      ELSE IF to_datetime(ref_date_str(file.ref)).k = "raise" THEN "error"
      ELSE IF juld_invalid(prof.juld) THEN "skip"
      ELSE IF loc.measurement_date.k = "raise" THEN "error"
      ELSE IF ~is_year_range_2020_2025(loc.measurement_date) THEN "skip"
      ELSE IF ~is_indian_ocean(loc.latitude, loc.longitude) THEN "skip"
      ELSE "accept"

profile_locals_extract(file, r, i) ==
  ProfileLocals(file, r, i,
    fallback_extract(platform_id_extract(ProfileAt(file, i).platform),
                     FilePath(file)))

\* ingest: the profile loop's body up to the level loop
profile_status_ingest(file, r, i) ==
  LET prof == ProfileAt(file, i)
      loc  == ProfileLocals(file, r, i, <<>>)
  IN  IF lookup_fails(r) THEN "error"
      ELSE IF to_datetime(ref_date_str(file.ref)).k = "raise" THEN "error"
      ELSE IF juld_invalid(prof.juld) THEN "skip"
      ELSE IF loc.measurement_date.k = "raise" THEN "error"
      ELSE IF coords_invalid(loc.latitude, loc.longitude) THEN "skip"
      ELSE IF valid_count(loc.pressure) = 0 THEN "skip"
      ELSE "accept"

profile_locals_ingest(file, r, i) ==
  ProfileLocals(file, r, i,
    fallback_ingest(platform_id_ingest(ProfileAt(file, i).platform),
                    FilePath(file)))

\* ---------------------------------------------------------------- row emitter
\* OptionalValue without the NaN test of the missing-value guard
OptionalValue_mask_only(var_name, array, idx, converted) ==
  IF var_name # None /\ ~mask_check(array, idx) THEN converted ELSE NoneVal

\* the optional value of a row: temp_val / sal_val before any failure
OptionalValue(var_name, array, idx, converted) ==
  IF var_name # None
     /\ ~(mask_check(array, idx) \/ safe_isnan(GetItem(array, idx)))
  THEN converted
  ELSE NoneVal

\* level_status_extract without the test for a negative pressure
level_status_extract_keeps_negative(r, loc, idx) ==
  LET pressure_val == safe_float_conversion_extract(GetItem(loc.pressure, idx))
  IN  IF mask_check(loc.pressure, idx)
         \/ safe_isnan(GetItem(loc.pressure, idx)) THEN "skip"
      ELSE IF pressure_val = NoneVal THEN "skip"
      ELSE "row"

\* extract: the level loop's body: "row" appends, "skip" is a continue
level_status_extract(r, loc, idx) ==
  LET pressure_val == safe_float_conversion_extract(GetItem(loc.pressure, idx))
  IN  IF mask_check(loc.pressure, idx)
         \/ safe_isnan(GetItem(loc.pressure, idx)) THEN "skip"
      ELSE IF pressure_val = NoneVal \/ FloatLt(pressure_val, 0) THEN "skip"
      ELSE "row"

level_row_extract(r, loc, idx) ==
  [platform_id |-> loc.platform_id,
   measurement_date |-> strftime(loc.measurement_date),
   latitude |-> loc.latitude,
   longitude |-> loc.longitude,
   pressure_dbar |-> safe_float_conversion_extract(GetItem(loc.pressure, idx)),
   temperature_celsius |->
     OptionalValue(r.temp_var, loc.temperature, idx,
       safe_float_conversion_extract(GetItem(loc.temperature, idx))),
   salinity_psu |->
     OptionalValue(r.salinity_var, loc.salinity, idx,
       safe_float_conversion_extract(GetItem(loc.salinity, idx))),
   year |-> YearOf(loc.measurement_date)]

\* ingest: the row of level idx; a field may hold RaiseVal, and then the
\* level's try block is left through its except
level_row_ingest(r, loc, idx) ==
  [platform_id |-> loc.platform_id,
   measurement_date |-> loc.measurement_date,
   latitude |-> loc.latitude,
   longitude |-> loc.longitude,
   pressure_dbar |-> safe_float_conversion_ingest(GetItem(loc.pressure, idx)),
   temperature_celsius |->
     OptionalValue(r.temp_var, loc.temperature, idx,
       safe_float_conversion_ingest(GetItem(loc.temperature, idx))),
   salinity_psu |->
     OptionalValue(r.salinity_var, loc.salinity, idx,
       safe_float_conversion_ingest(GetItem(loc.salinity, idx)))]

\* ingest: the level loop's body: "row" appends, "skip" is a continue,
\* "error" the except-continue
level_status_ingest(r, loc, idx) ==
  LET row == level_row_ingest(r, loc, idx)
  IN  IF mask_check(loc.pressure, idx)
         \/ safe_isnan(GetItem(loc.pressure, idx)) THEN "skip"
      ELSE IF row.pressure_dbar = RaiseVal THEN "error"
      ELSE IF FloatLt(row.pressure_dbar, 0) THEN "skip"
      ELSE IF row.temperature_celsius = RaiseVal THEN "error"
      ELSE IF row.salinity_psu = RaiseVal THEN "error"
      ELSE "row"

\* ------------------------------------------------------------------- inputs
\* One cell of a variable: its stored number and its mask flag (a masked
\* cell stores the fill value).
Ok(n) == [x |-> Fin(n), m |-> FALSE]
Cell(x) == [x |-> x, m |-> FALSE]
MaskedCell == [x |-> Fin(99999), m |-> TRUE]

Column(cells) ==
  Arr1([n \in DOMAIN cells |-> cells[n].x], [n \in DOMAIN cells |-> cells[n].m])

SeqsUpTo(S, n) == UNION {[1..q -> S] : q \in 0..n}
SeqsFrom1(S, n) == UNION {[1..q -> S] : q \in 1..n}

PressureCells ==
  {MaskedCell, Cell(NaN), Cell(PInf), Cell(NInf), Ok(-1), Ok(0), Ok(10), Ok(20)}
TemperatureCells == {MaskedCell, Cell(NaN), Ok(5)}
SalinityCells == {MaskedCell, Cell(NaN), Ok(35)}

\* the levels a profile is built from: every pressure with present
\* temperature and salinity, and a present pressure with every combination
\* of temperature and salinity
LevelSamples ==
  {[p |-> c, t |-> Ok(5), s |-> Ok(35)] : c \in PressureCells}
  \cup {[p |-> Ok(10), t |-> a, s |-> b] :
          a \in TemperatureCells, b \in SalinityCells}

StdName ==
  <<"n","o","d","c","_","D","6","9","0","2","7","5","8","_","0","2","9",".","n","c">>
StdRef ==
  <<"1","9","5","0","0","1","0","1","0","0","0","0","0","0">>
StdPlatform ==
  [kind |-> "bytes", b |-> <<"6","9","0","2","7","5","8"," ">>]
\* 1950-01-01 + 26000 days is 2021-03-09
StdJuld == [k |-> "fin", d |-> 26000, ms |-> 0]
StdVars ==
  <<PRES, TEMP, PSAL, PLATFORM_NUMBER, JULD, LATITUDE, LONGITUDE,
    REFERENCE_DATE_TIME>>

\* n present levels: pressures 10, 20, ..., temperatures 5, 6, ...
StdPres(n) == Column([q \in 1..n |-> Ok(10 * q)])
StdTemp(n) == Column([q \in 1..n |-> Ok(4 + q)])
StdSal(n) == Column([q \in 1..n |-> Ok(34 + q)])

StdProfile ==
  [platform |-> StdPlatform, juld |-> StdJuld, lat |-> Fin(10),
   lon |-> Fin(80), pres |-> StdPres(1), temp |-> StdTemp(1),
   sal |-> StdSal(1)]

StdFile ==
  [name |-> StdName, openable |-> TRUE, multi |-> FALSE, vars |-> StdVars,
   ref |-> StdRef, profiles |-> <<StdProfile>>]

OneProfile(prof) == [StdFile EXCEPT !.profiles = <<prof>>]

\* (a) one profile, every sequence of level samples
LevelsProfile(ls) ==
  [StdProfile EXCEPT !.pres = Column([n \in DOMAIN ls |-> ls[n].p]),
                     !.temp = Column([n \in DOMAIN ls |-> ls[n].t]),
                     !.sal = Column([n \in DOMAIN ls |-> ls[n].s])]
LevelFiles ==
  {OneProfile(LevelsProfile(ls)) : ls \in SeqsUpTo(LevelSamples, MaxLevels)}

\* (b) one profile, every time offset and position.  With the reference
\* time 1950-01-01, day 25567 is 2020-01-01 and day 27759 is 2026-01-01.
Offsets ==
  {[k |-> "masked", d |-> 0, ms |-> 0], [k |-> "nan", d |-> 0, ms |-> 0],
   [k |-> "pinf", d |-> 0, ms |-> 0],
   [k |-> "fin", d |-> 25566, ms |-> MsPerDay - 1],
   [k |-> "fin", d |-> 25567, ms |-> 0],
   [k |-> "fin", d |-> 26000, ms |-> 43200500],
   [k |-> "fin", d |-> 27758, ms |-> MsPerDay - 1],
   [k |-> "fin", d |-> 27759, ms |-> 0]}
MaskedCoord == [k |-> "masked", v |-> 0]
Latitudes ==
  {MaskedCoord, NaN, PInf, NInf, Fin(-71), Fin(-70), Fin(10), Fin(30), Fin(31)}
Longitudes ==
  {MaskedCoord, NaN, PInf, Fin(19), Fin(20), Fin(80), Fin(140), Fin(141),
   Fin(200)}
MetaFiles ==
  {OneProfile([StdProfile EXCEPT !.juld = o, !.lat = la, !.lon = lo]) :
     o \in Offsets, la \in Latitudes, lo \in Longitudes}

\* (c) the reference time: valid, blank, out of layout, out of range
RefTexts ==
  {StdRef,
   <<"2","0","1","9","1","2","3","1","2","3","5","9","5","9">>,
   <<" "," "," "," "," "," "," "," "," "," "," "," "," "," ">>,
   <<"1","9","5","0","-","0","1","-","0","1">>,
   <<"1","9","5","0","1","3","0","1","0","0","0","0","0","0">>}
RefFiles ==
  {[OneProfile([StdProfile EXCEPT !.juld = o]) EXCEPT !.ref = t] :
     t \in RefTexts,
     o \in {[k |-> "fin", d |-> 0, ms |-> 500],
            [k |-> "fin", d |-> 0, ms |-> 1000],
            [k |-> "fin", d |-> 26000, ms |-> 0],
            [k |-> "masked", d |-> 0, ms |-> 0]}}

\* (d) the variables present, in upper or lower case
InCase(c, names) ==
  IF c = "lower" THEN [n \in DOMAIN names |-> Lower(names[n])] ELSE names
NameFiles ==
  {[StdFile EXCEPT !.vars = InCase(c, p \o t \o s \o pl \o ju \o la \o lo \o re)] :
     c \in {"upper", "lower"},
     p \in {<<>>, <<PRES>>, <<PRES, PRES_ADJUSTED>>},
     t \in {<<>>, <<TEMP>>},
     s \in {<<>>, <<PSAL>>},
     pl \in {<<>>, <<PLATFORM_NUMBER>>, <<WMO_INST_TYPE, FLOAT_SERIAL_NO>>},
     ju \in {<<>>, <<JULD>>},
     la \in {<<>>, <<LATITUDE>>},
     lo \in {<<>>, <<LONGITUDE>>},
     re \in {<<>>, <<REFERENCE_DATE_TIME>>}}

\* (e) every list of distinct measurement names, in mixed cases
NamePool ==
  {PRES, Lower(PRES), <<"P","r","e","s">>, PRES_ADJUSTED,
   Lower(PRES_ADJUSTED), TEMP, Lower(TEMP_ADJUSTED)}
VarListFiles ==
  {[StdFile EXCEPT !.vars = extra \o <<PLATFORM_NUMBER, JULD, LATITUDE,
                                       LONGITUDE, REFERENCE_DATE_TIME>>] :
     extra \in {e \in SeqsUpTo(NamePool, MaxVars) :
                  \A a, b \in DOMAIN e : a # b => e[a] # e[b]}}

\* (f) raw platform values and file names (every name ends in ".nc", as
\* main's listing requires)
PlatformRaws ==
  {StdPlatform,
   [kind |-> "bytes", b |-> <<"1","2","3"," "," ">>],
   [kind |-> "bytes", b |-> <<" "," "," "," "," "," "," "," ">>],
   [kind |-> "bytes", b |-> <<"N","o","n","e"," "," "," "," ">>],
   [kind |-> "bytes", b |-> <<"6", "9", Undecodable, " ">>],
   [kind |-> "scalar", b |-> <<"0",".","0">>],
   [kind |-> "scalar", b |-> <<"<","m","e","m","o","r","y",">">>],
   [kind |-> "str", b |-> <<" ">>],
   [kind |-> "str", b |-> NoneText],
   [kind |-> "str", b |-> <<"4","9","0","1","2","3","4">>]}
FileNames ==
  {StdName,
   <<"1","2","3","4","5","6","7","8","9",".","n","c">>,
   <<"R","1","9","0","1","2","3","4",".","n","c">>,
   <<"a","r","g","o",".","n","c">>,
   <<"n","o","d","c","_","D","R",".","n","c">>,
   <<"D",".","n","c">>,
   <<".","n","c">>}
IdentityFiles ==
  {[OneProfile([StdProfile EXCEPT !.platform = raw]) EXCEPT !.name = nm] :
     raw \in PlatformRaws, nm \in FileNames}

\* (g) multi-profile files
ProfileSamples ==
  {[StdProfile EXCEPT !.pres = StdPres(2), !.temp = StdTemp(2),
                      !.sal = StdSal(2)],
   [StdProfile EXCEPT !.platform = [kind |-> "bytes", b |-> <<"1","2","3"," "," ">>],
                      !.juld = [k |-> "fin", d |-> 27758, ms |-> 1500],
                      !.lat = Fin(-70), !.lon = Fin(20)],
   [StdProfile EXCEPT !.juld = [k |-> "masked", d |-> 0, ms |-> 0]],
   [StdProfile EXCEPT !.juld = [k |-> "pinf", d |-> 0, ms |-> 0]],
   [StdProfile EXCEPT !.lon = Fin(200)],
   [StdProfile EXCEPT !.juld = [k |-> "fin", d |-> 25566, ms |-> 0]],
   [StdProfile EXCEPT !.pres = Column(<<MaskedCell>>)]}
MultiFiles ==
  {[StdFile EXCEPT !.multi = TRUE, !.profiles = ps] :
     ps \in SeqsUpTo(ProfileSamples, MaxProfiles)}

\* (h) variables with a second dimension behind the level dimension, and
\* 1-D variables carrying nomask.  A row is [d, m]; all rows of one array
\* have one width.
Row(d, m) == [d |-> d, m |-> m]
RowsWide ==
  {Row(<<Fin(10), Fin(20)>>, <<FALSE, FALSE>>),
   Row(<<NaN, Fin(10)>>, <<FALSE, FALSE>>),
   Row(<<NaN, NaN>>, <<FALSE, FALSE>>),
   Row(<<Fin(-1), Fin(10)>>, <<FALSE, FALSE>>)}
RowsWideMasked ==
  RowsWide
  \cup {Row(<<Fin(10), Fin(20)>>, <<FALSE, TRUE>>),
        Row(<<Fin(99999), Fin(10)>>, <<TRUE, FALSE>>),
        Row(<<Fin(99999), Fin(99999)>>, <<TRUE, TRUE>>)}
RowsNarrow == {Row(<<Fin(10)>>, <<FALSE>>), Row(<<NaN>>, <<FALSE>>)}
RowsNarrowMasked == RowsNarrow \cup {Row(<<Fin(99999)>>, <<TRUE>>)}

ArrOfRows(rs, nomask) ==
  [nomask |-> nomask, twoD |-> TRUE,
   d |-> [n \in DOMAIN rs |-> rs[n].d], m |-> [n \in DOMAIN rs |-> rs[n].m]]
TwoDArrays ==
  {ArrOfRows(rs, TRUE) : rs \in SeqsFrom1(RowsWide, MaxLevels)}
  \cup {ArrOfRows(rs, FALSE) : rs \in SeqsFrom1(RowsWideMasked, MaxLevels)}
  \cup {ArrOfRows(rs, TRUE) : rs \in SeqsFrom1(RowsNarrow, MaxLevels)}
  \cup {ArrOfRows(rs, FALSE) : rs \in SeqsFrom1(RowsNarrowMasked, MaxLevels)}
NoMaskArrays ==
  {Arr1NoMask(ds) :
     ds \in SeqsUpTo({Fin(10), NaN, PInf, Fin(-1)}, MaxLevels)}
WideSalinity(n) == ArrOfRows([q \in 1..n |-> Row(<<Fin(35), Fin(36)>>,
                                                  <<FALSE, FALSE>>)], TRUE)
ShapeFiles ==
  {OneProfile([StdProfile EXCEPT !.pres = a, !.temp = StdTemp(ArrLen(a)),
                                 !.sal = StdSal(ArrLen(a))]) :
     a \in TwoDArrays \cup NoMaskArrays}
  \cup {OneProfile([StdProfile EXCEPT !.pres = StdPres(ArrLen(a)),
                                      !.temp = a,
                                      !.sal = IF wide THEN WideSalinity(ArrLen(a))
                                              ELSE StdSal(ArrLen(a))]) :
          a \in TwoDArrays, wide \in BOOLEAN}

\* (i) Scenario A of the specification: pressure [10, 20, missing],
\* temperature [5, missing, 7], salinity all missing
ScenarioA ==
  OneProfile([StdProfile EXCEPT
    !.pres = Column(<<Ok(10), Ok(20), MaskedCell>>),
    !.temp = Column(<<Ok(5), MaskedCell, Ok(7)>>),
    !.sal = Column(<<MaskedCell, MaskedCell, MaskedCell>>)])

SingleFiles ==
  LevelFiles \cup MetaFiles \cup RefFiles \cup NameFiles \cup VarListFiles
  \cup IdentityFiles \cup MultiFiles \cup ShapeFiles \cup {ScenarioA}

\* (j) batches of several files: a file that cannot be opened, one without
\* JULD, one with two rows, one with no row, one with one row
SmallFiles ==
  {[StdFile EXCEPT !.openable = FALSE,
                   !.name = <<"b","r","o","k","e","n",".","n","c">>],
   [StdFile EXCEPT !.vars = <<PRES, PLATFORM_NUMBER, LATITUDE, LONGITUDE,
                              REFERENCE_DATE_TIME>>,
                   !.name = <<"a","r","g","o",".","n","c">>],
   OneProfile([StdProfile EXCEPT !.pres = StdPres(2), !.temp = StdTemp(2),
                                 !.sal = StdSal(2)]),
   [OneProfile([StdProfile EXCEPT !.pres = Column(<<MaskedCell>>)])
      EXCEPT !.name = <<"R","1","9","0","1","2","3","4",".","n","c">>],
   [OneProfile([StdProfile EXCEPT
       !.platform = [kind |-> "bytes", b |-> <<" "," "," "," ">>]])
      EXCEPT !.name = <<"1","2","3","4","5","6","7","8","9",".","n","c">>]}
\* a directory lists each name once
Batches ==
  {b \in SeqsUpTo(SmallFiles, MaxFiles) :
     \A a, c \in DOMAIN b : a # c => b[a].name # b[c].name}

Inputs == {<<f>> : f \in SingleFiles} \cup Batches

\* -------------------------------------------------------------------- state
VARIABLES
  variant,      \* "extract" or "ingest": which program runs
  nc_files,     \* main: the files listed in DATA_DIR
  fi,           \* main: position in nc_files of the file being processed
  pc,           \* where control is: start, main, resolved, profile, level,
                \* ret (the per-file function has returned), commit, done,
                \* main_error (ingest: main's outer except has run)
  handles,      \* how many nc.Dataset handles are open
  resolved,     \* the variable names found for the eight roles
  i,            \* the profile loop's index
  j,            \* the level loop's index
  loc,          \* the locals of the current profile
  all_rows,     \* all_rows / all_profiles_data of the running call
  returned,     \* what the per-file function returned
  visited,      \* history: profile iterations begun in the running call
  accepted,     \* history: profile indexes that entered the level loop
  row_src,      \* history: for each row of all_rows, its <<i, j>>
  collected,    \* extract: all_extracted_rows
  pending,      \* ingest: rows inserted in the open transaction
  db,           \* ingest: rows committed to argo_measurements
  total_rows, files_with_data, files_without_data, total_files_processed,
  summary,      \* whether main reached its closing report (ingest: the
                \* SUMMARY block; extract: the CSV with its summary, or the
                \* no-data notice when no row was extracted)
  outcomes      \* history: for each file main is done with, how its
                \* iteration ended and the rows the per-file function returned

vars ==
  <<variant, nc_files, fi, pc, handles, resolved, i, j, loc, all_rows,
    returned, visited, accepted, row_src, collected, pending, db, total_rows,
    files_with_data, files_without_data, total_files_processed, summary,
    outcomes>>

NoLocals ==
  [platform_id |-> <<>>, measurement_date |-> NaT, latitude |-> NaN,
   longitude |-> NaN, pressure |-> Column(<<>>), temperature |-> Column(<<>>),
   salinity |-> Column(<<>>)]

Init ==
  /\ variant \in {"extract", "ingest"}
  /\ nc_files \in Inputs
  /\ fi = 1
  /\ pc = "start"
  /\ handles = 0
  /\ resolved = Unresolved
  /\ i = 0
  /\ j = 0
  /\ loc = NoLocals
  /\ all_rows = <<>>
  /\ returned = <<>>
  /\ visited = 0
  /\ accepted = {}
  /\ row_src = <<>>
  /\ collected = <<>>
  /\ pending = <<>>
  /\ db = <<>>
  /\ total_rows = 0
  /\ files_with_data = 0
  /\ files_without_data = 0
  /\ total_files_processed = 0
  /\ summary = FALSE
  /\ outcomes = <<>>

CurFile == nc_files[fi]

fileVars == <<handles, resolved, i, j, loc, all_rows, returned, visited,
              accepted, row_src>>
driverVars == <<collected, pending, db, total_rows, files_with_data,
                files_without_data, total_files_processed, summary, outcomes>>

\* what main's loop body did with one file
Outcome(kind) == [kind |-> kind, rows |-> returned]

\* ------------------------------------------------------------------- actions
\* main up to its loop: no .nc file ends it at once; ingest connects to the
\* database first, and a failed connection ends main in its outer except
NoFiles ==
  /\ pc = "start" /\ nc_files = <<>>
  /\ pc' = "done"
  /\ UNCHANGED <<variant, nc_files, fi, fileVars, driverVars>>

StartLoop ==
  /\ pc = "start" /\ nc_files # <<>>
  /\ pc' = "main"
  /\ UNCHANGED <<variant, nc_files, fi, fileVars, driverVars>>

ConnectFails ==
  /\ pc = "start" /\ nc_files # <<>> /\ variant = "ingest"
  /\ pc' = "main_error"
  /\ UNCHANGED <<variant, nc_files, fi, fileVars, driverVars>>

\* OpenFails with the exception of nc.Dataset leaving the per-file function
\* and main
OpenFails_raises ==
  /\ pc = "main" /\ fi <= Len(nc_files) /\ ~CurFile.openable
  /\ pc' = "done"
  /\ UNCHANGED <<variant, nc_files, fi, fileVars, driverVars>>

\* the per-file function is called: nc.Dataset raises into the outer except
\* (return []), or the handle is open and the roles are resolved
OpenFails ==
  /\ pc = "main" /\ fi <= Len(nc_files) /\ ~CurFile.openable
  /\ pc' = "ret"
  /\ returned' = <<>>
  /\ all_rows' = <<>> /\ row_src' = <<>> /\ visited' = 0 /\ accepted' = {}
  /\ resolved' = Unresolved /\ i' = 0 /\ j' = 0 /\ loc' = NoLocals
  /\ UNCHANGED <<variant, nc_files, fi, handles, driverVars>>

OpenFile ==
  /\ pc = "main" /\ fi <= Len(nc_files) /\ CurFile.openable
  /\ pc' = "resolved"
  /\ handles' = handles + 1
  /\ resolved' = ResolveVariables(CurFile.vars)
  /\ all_rows' = <<>> /\ row_src' = <<>> /\ visited' = 0 /\ accepted' = {}
  /\ i' = 0 /\ j' = 0 /\ loc' = NoLocals
  /\ UNCHANGED <<variant, nc_files, fi, returned, driverVars>>

\* RejectFile with the handle left open
RejectFile_leaks ==
  /\ pc = "resolved" /\ missing_required(resolved)
  /\ pc' = "ret"
  /\ returned' = <<>>
  /\ UNCHANGED <<variant, nc_files, fi, handles, resolved, i, j, loc,
                 all_rows, visited, accepted, row_src, driverVars>>

\* "Check required variables": return [] out of the with block
RejectFile ==
  /\ pc = "resolved" /\ missing_required(resolved)
  /\ pc' = "ret"
  /\ returned' = <<>>
  /\ handles' = handles - 1
  /\ UNCHANGED <<variant, nc_files, fi, resolved, i, j, loc, all_rows,
                 visited, accepted, row_src, driverVars>>

EnterLoop ==
  /\ pc = "resolved" /\ ~missing_required(resolved)
  /\ pc' = "profile"
  /\ UNCHANGED <<variant, nc_files, fi, fileVars, driverVars>>

ProfileStatus ==
  IF variant = "extract" THEN profile_status_extract(CurFile, resolved, i)
  ELSE profile_status_ingest(CurFile, resolved, i)
ProfileLocalsNow ==
  IF variant = "extract" THEN profile_locals_extract(CurFile, resolved, i)
  ELSE profile_locals_ingest(CurFile, resolved, i)

\* one iteration of the profile loop that ends in a continue
SkipProfile ==
  /\ pc = "profile" /\ i < NumProfiles(CurFile)
  /\ ProfileStatus # "accept"
  /\ visited' = visited + 1
  /\ i' = i + 1
  /\ UNCHANGED <<variant, nc_files, fi, pc, handles, resolved, j, loc,
                 all_rows, returned, accepted, row_src, driverVars>>

\* one iteration of the profile loop that reaches the level loop
AcceptProfile ==
  /\ pc = "profile" /\ i < NumProfiles(CurFile)
  /\ ProfileStatus = "accept"
  /\ visited' = visited + 1
  /\ accepted' = accepted \cup {i}
  /\ loc' = ProfileLocalsNow
  /\ j' = 0
  /\ pc' = "level"
  /\ UNCHANGED <<variant, nc_files, fi, handles, resolved, i, all_rows,
                 returned, row_src, driverVars>>

LevelStatus ==
  IF variant = "extract" THEN level_status_extract(resolved, loc, j)
  ELSE level_status_ingest(resolved, loc, j)
LevelRow ==
  IF variant = "extract" THEN level_row_extract(resolved, loc, j)
  ELSE level_row_ingest(resolved, loc, j)

\* one iteration of the level loop that appends a row
EmitRow ==
  /\ pc = "level" /\ j < ArrLen(loc.pressure)
  /\ LevelStatus = "row"
  /\ all_rows' = Append(all_rows, LevelRow)
  /\ row_src' = Append(row_src, <<i, j>>)
  /\ j' = j + 1
  /\ UNCHANGED <<variant, nc_files, fi, pc, handles, resolved, i, loc,
                 returned, visited, accepted, driverVars>>

\* one iteration of the level loop that ends in a continue
SkipLevel ==
  /\ pc = "level" /\ j < ArrLen(loc.pressure)
  /\ LevelStatus # "row"
  /\ j' = j + 1
  /\ UNCHANGED <<variant, nc_files, fi, pc, handles, resolved, i, loc,
                 all_rows, returned, visited, accepted, row_src, driverVars>>

\* the level loop is exhausted: on to the next profile
EndProfile ==
  /\ pc = "level" /\ j = ArrLen(loc.pressure)
  /\ i' = i + 1
  /\ pc' = "profile"
  /\ UNCHANGED <<variant, nc_files, fi, handles, resolved, j, loc, all_rows,
                 returned, visited, accepted, row_src, driverVars>>

\* the profile loop is exhausted: the with block closes the handle and the
\* function returns its rows
CloseFile ==
  /\ pc = "profile" /\ i = NumProfiles(CurFile)
  /\ handles' = handles - 1
  /\ returned' = all_rows
  /\ pc' = "ret"
  /\ UNCHANGED <<variant, nc_files, fi, resolved, i, j, loc, all_rows,
                 visited, accepted, row_src, driverVars>>

\* extract: main takes the rows of one file
Collect ==
  /\ pc = "ret" /\ variant = "extract"
  /\ collected' = collected \o returned
  /\ files_with_data' = files_with_data + (IF returned # <<>> THEN 1 ELSE 0)
  /\ total_files_processed' = total_files_processed + 1
  /\ outcomes' = Append(outcomes, Outcome("collected"))
  /\ fi' = fi + 1
  /\ pc' = "main"
  /\ UNCHANGED <<variant, nc_files, fileVars, pending, db, total_rows,
                 files_without_data, summary>>

\* ingest: "if not data"
NoData ==
  /\ pc = "ret" /\ variant = "ingest" /\ returned = <<>>
  /\ files_without_data' = files_without_data + 1
  /\ outcomes' = Append(outcomes, Outcome("nodata"))
  /\ fi' = fi + 1
  /\ pc' = "main"
  /\ UNCHANGED <<variant, nc_files, fileVars, collected, pending, db,
                 total_rows, files_with_data, total_files_processed, summary>>

\* ingest: execute_values puts the file's rows into the open transaction
InsertRows ==
  /\ pc = "ret" /\ variant = "ingest" /\ returned # <<>>
  /\ pending' = pending \o returned
  /\ pc' = "commit"
  /\ UNCHANGED <<variant, nc_files, fi, fileVars, collected, db, total_rows,
                 files_with_data, files_without_data, total_files_processed,
                 summary, outcomes>>

\* InsertFails without the rollback of the except: the rows execute_values
\* had sent stay in the open transaction
InsertFails_no_rollback ==
  /\ pc = "ret" /\ variant = "ingest" /\ returned # <<>>
  /\ pending' = pending \o <<returned[1]>>
  /\ outcomes' = Append(outcomes, Outcome("failed"))
  /\ fi' = fi + 1
  /\ pc' = "main"
  /\ UNCHANGED <<variant, nc_files, fileVars, collected, db, total_rows,
                 files_with_data, files_without_data, total_files_processed,
                 summary>>

\* ingest: execute_values raises after sending some of the rows; the except
\* rolls the transaction back
InsertFails ==
  /\ pc = "ret" /\ variant = "ingest" /\ returned # <<>>
  /\ pending' = <<>>
  /\ outcomes' = Append(outcomes, Outcome("failed"))
  /\ fi' = fi + 1
  /\ pc' = "main"
  /\ UNCHANGED <<variant, nc_files, fileVars, collected, db, total_rows,
                 files_with_data, files_without_data, total_files_processed,
                 summary>>

\* ingest: pg_conn.commit() and the counters
Commit ==
  /\ pc = "commit"
  /\ db' = db \o pending
  /\ pending' = <<>>
  /\ total_rows' = total_rows + Len(returned)
  /\ files_with_data' = files_with_data + 1
  /\ outcomes' = Append(outcomes, Outcome("committed"))
  /\ fi' = fi + 1
  /\ pc' = "main"
  /\ UNCHANGED <<variant, nc_files, fileVars, collected, files_without_data,
                 total_files_processed, summary>>

\* CommitFails with the counters of the file bumped before the commit
CommitFails_counted ==
  /\ pc = "commit"
  /\ pending' = <<>>
  /\ total_rows' = total_rows + Len(returned)
  /\ files_with_data' = files_with_data + 1
  /\ outcomes' = Append(outcomes, Outcome("failed"))
  /\ fi' = fi + 1
  /\ pc' = "main"
  /\ UNCHANGED <<variant, nc_files, fileVars, collected, db,
                 files_without_data, total_files_processed, summary>>

\* ingest: pg_conn.commit() raises; the except rolls the transaction back
CommitFails ==
  /\ pc = "commit"
  /\ pending' = <<>>
  /\ outcomes' = Append(outcomes, Outcome("failed"))
  /\ fi' = fi + 1
  /\ pc' = "main"
  /\ UNCHANGED <<variant, nc_files, fileVars, collected, db, total_rows,
                 files_with_data, files_without_data, total_files_processed,
                 summary>>

\* the file loop is exhausted: the closing report
Summary ==
  /\ pc = "main" /\ fi > Len(nc_files)
  /\ summary' = TRUE
  /\ pc' = "done"
  /\ UNCHANGED <<variant, nc_files, fi, fileVars, collected, pending, db,
                 total_rows, files_with_data, files_without_data,
                 total_files_processed, outcomes>>

Next ==
  \/ NoFiles \/ StartLoop \/ ConnectFails
  \/ OpenFails \/ OpenFile \/ RejectFile \/ EnterLoop
  \/ SkipProfile \/ AcceptProfile
  \/ EmitRow \/ SkipLevel \/ EndProfile \/ CloseFile
  \/ Collect \/ NoData \/ InsertRows \/ InsertFails \/ Commit \/ CommitFails
  \/ Summary

Spec == Init /\ [][Next]_vars

\* ------------------------------------------------ vocabulary of the claims
\* The running call's file is CurFile while control is in these places.
Running == pc \in {"resolved", "profile", "level", "ret", "commit"}
Returned == pc \in {"ret", "commit"}

Range(f) == {f[n] : n \in DOMAIN f}
RowProfile(n) == ProfileAt(CurFile, row_src[n][1])
HasRow(idx, l) == \E n \in DOMAIN row_src : row_src[n] = <<idx, l>>
RowAt(idx, l) == all_rows[CHOOSE n \in DOMAIN row_src : row_src[n] = <<idx, l>>]

\* the levels (counted from 0) of profile idx the level loop has left behind
LevelsDone(idx) ==
  IF idx < i THEN 0..(ArrLen(ProfileAt(CurFile, idx).pres) - 1)
  ELSE IF idx = i /\ pc = "level" THEN 0..(j - 1)
  ELSE {}

\* Missing-value guard, read off the stored data: a value is missing when
\* any of its mask flags is set or all its numbers are NaN.
AnyMasked(array, l) ==
  ~array.nomask /\ \E q \in DOMAIN array.m[l + 1] : array.m[l + 1][q]
Missing(array, l) ==
  AnyMasked(array, l) \/ \A q \in DOMAIN array.d[l + 1] : array.d[l + 1][q].k = "nan"
\* A present value converts unless it has several elements and no mask array.
Converts(array, l) ==
  ~array.twoD \/ Len(array.d[l + 1]) = 1 \/ ~array.nomask
\* the number a present, converting value stands for: its first element
ValueAt(array, l) == array.d[l + 1][1]

FiniteNonNegative(x) == x.k = "fin" /\ x.v >= 0
NotNegative(x) == ~((x.k = "fin" /\ x.v < 0) \/ x.k = "ninf")

\* "present non-negative pressure" at level l of a profile: not missing
\* and, once converted, not negative
PressurePresentNonNegative(prof, l) ==
  /\ l < ArrLen(prof.pres)
  /\ ~Missing(prof.pres, l)
  /\ Converts(prof.pres, l)
  /\ NotNegative(ValueAt(prof.pres, l))

\* what a row's optional field must be when every present value converts
ExpectedOptional(var_name, array, l) ==
  IF var_name = None \/ Missing(array, l) THEN NoneVal ELSE ValueAt(array, l)

\* a role has an alias that some variable of the file matches in any case
LowerAll(names) == [n \in DOMAIN names |-> Lower(names[n])]
Resolvable(aliases, available_vars) ==
  LET lowered == Range(LowerAll(available_vars))
  IN  \E a \in DOMAIN aliases : Lower(aliases[a]) \in lowered
RequiredResolvable(file) ==
  /\ Resolvable(pressure_aliases, file.vars)
  /\ Resolvable(platform_aliases, file.vars)
  /\ Resolvable(<<JULD>>, file.vars)
  /\ Resolvable(<<LATITUDE>>, file.vars)
  /\ Resolvable(<<LONGITUDE>>, file.vars)
  /\ Resolvable(<<REFERENCE_DATE_TIME>>, file.vars)

\* the inclusive bounding box, on the coordinates as stored
InBox(prof) ==
  /\ prof.lat.k = "fin" /\ lat_min <= prof.lat.v /\ prof.lat.v <= lat_max
  /\ prof.lon.k = "fin" /\ lon_min <= prof.lon.v /\ prof.lon.v <= lon_max

\* the profile's measurement timestamp
ProfileTime(file, prof) ==
  AddOffset(to_datetime(ref_date_str(file.ref)), prof.juld)

\* ------------------------------------------------------------------ claims

\* C1: a row is appended for a level only if the pressure there is present
\* (not masked), finite and >= 0; no row carries a missing, non-finite or
\* negative pressure_dbar.
C1_PressurePresentFiniteNonNegative ==
  Running =>
    \A n \in DOMAIN all_rows :
      /\ ~AnyMasked(RowProfile(n).pres, row_src[n][2])
      /\ FiniteNonNegative(all_rows[n].pressure_dbar)

\* C2: a profile whose time offset is masked or non-finite never enters the
\* level loop and has no row, whatever its coordinates and levels.
C2_InvalidOffsetNoRows ==
  Running =>
    /\ \A idx \in accepted : ProfileAt(CurFile, idx).juld.k = "fin"
    /\ \A n \in DOMAIN row_src : RowProfile(n).juld.k = "fin"

C2_Witness ==
  /\ pc = "ret" /\ CurFile.multi /\ NumProfiles(CurFile) = 2
  /\ ProfileAt(CurFile, 0).juld.k = "masked"
  /\ InBox(ProfileAt(CurFile, 0))
  /\ PressurePresentNonNegative(ProfileAt(CurFile, 0), 0)
  /\ visited = 2
  /\ accepted = {1}
  /\ returned # <<>>

\* C3: with the geographic filter enabled (extract) a profile outside the
\* inclusive box has no row; a profile on the box boundary, and with the
\* filter disabled (ingest) any profile, is not rejected for its position:
\* it enters the level loop when the other constraints hold, and each of its
\* plain levels with a present non-negative pressure has a row.
OtherConstraintsHold(file, prof) ==
  /\ to_datetime(ref_date_str(file.ref)).k # "raise"
  /\ prof.juld.k = "fin"
  /\ prof.lat.k \notin {"nan", "masked"} /\ prof.lon.k \notin {"nan", "masked"}
  /\ variant = "extract" =>
       /\ ProfileTime(file, prof).k = "ts"
       /\ YearOf(ProfileTime(file, prof)) \in year_min..year_max
       /\ ~(prof.platform.kind = "bytes"
            /\ \E n \in DOMAIN prof.platform.b : prof.platform.b[n] = Undecodable)
  /\ variant = "ingest" =>
       (prof.pres.nomask
        \/ \E l \in DOMAIN prof.pres.m :
             \E q \in DOMAIN prof.pres.m[l] : ~prof.pres.m[l][q])
PlainProfile(prof) == ~prof.pres.twoD /\ ~prof.temp.twoD /\ ~prof.sal.twoD

C3_GeographicFilter ==
  Running =>
    /\ variant = "extract" =>
         /\ \A idx \in accepted : InBox(ProfileAt(CurFile, idx))
         /\ \A n \in DOMAIN row_src : InBox(RowProfile(n))
    /\ \A idx \in 0..(i - 1) :
         LET prof == ProfileAt(CurFile, idx)
         IN  (pc # "resolved"
              /\ OtherConstraintsHold(CurFile, prof)
              /\ (variant = "ingest" \/ InBox(prof)))
             => /\ idx \in accepted
                /\ PlainProfile(prof) =>
                     \A l \in LevelsDone(idx) :
                       PressurePresentNonNegative(prof, l) => HasRow(idx, l)

C3_Witness ==
  /\ pc = "ret" /\ variant = "extract"
  /\ ~CurFile.multi
  /\ ProfileAt(CurFile, 0).lat = Fin(10) /\ ProfileAt(CurFile, 0).lon = Fin(200)
  /\ OtherConstraintsHold(CurFile, ProfileAt(CurFile, 0))
  /\ PressurePresentNonNegative(ProfileAt(CurFile, 0), 0)
  /\ visited = 1
  /\ returned = <<>>

\* C4: with the temporal filter enabled (extract) a profile whose timestamp
\* year lies outside year_min..year_max has no row; a profile has rows only
\* if it passes the temporal and the geographic filter.
C4_TemporalFilter ==
  (Running /\ variant = "extract") =>
    /\ \A idx \in accepted :
         LET prof == ProfileAt(CurFile, idx)
         IN  /\ ProfileTime(CurFile, prof).k = "ts"
             /\ YearOf(ProfileTime(CurFile, prof)) \in year_min..year_max
             /\ InBox(prof)
    /\ \A n \in DOMAIN all_rows :
         /\ row_src[n][1] \in accepted
         /\ all_rows[n].year \in year_min..year_max

C4_Witness ==
  /\ pc = "ret" /\ variant = "extract"
  /\ ~CurFile.multi
  /\ CurFile.ref = StdRef
  /\ ProfileAt(CurFile, 0).juld = [k |-> "fin", d |-> 27759, ms |-> 0]
  /\ InBox(ProfileAt(CurFile, 0))
  /\ PressurePresentNonNegative(ProfileAt(CurFile, 0), 0)
  /\ visited = 1
  /\ returned = <<>>

\* C5: a profile whose latitude or longitude is non-finite (NaN, an
\* infinity, or masked) is rejected as a whole and has no row.
C5_NonFiniteCoordinatesNoRows ==
  Running =>
    /\ \A idx \in accepted :
         /\ ProfileAt(CurFile, idx).lat.k = "fin"
         /\ ProfileAt(CurFile, idx).lon.k = "fin"
    /\ \A n \in DOMAIN row_src :
         RowProfile(n).lat.k = "fin" /\ RowProfile(n).lon.k = "fin"

\* C6: the resolver returns a variable of the file, in the file's spelling,
\* that matches the first alias (in alias order) having any match, comparing
\* without regard to case; it returns None exactly when no alias matches; and
\* which alias is chosen does not change when the file's names change case.
FirstMatchingAlias(lowered_aliases, lowered_vars) ==
  LET hits == {a \in DOMAIN lowered_aliases :
                 lowered_aliases[a] \in Range(lowered_vars)}
  IN  IF hits = {} THEN 0 ELSE CHOOSE a \in hits : \A b \in hits : a <= b
ChosenAlias(lowered_aliases, name) ==
  IF name = None THEN 0
  ELSE LET lowered == Lower(name)
       IN  CHOOSE a \in DOMAIN lowered_aliases : lowered_aliases[a] = lowered
UpperAll(names) ==
  [n \in DOMAIN names |-> [c \in DOMAIN names[n] |-> UpperChar(names[n][c])]]
RoleResolved(aliases, available_vars, name) ==
  LET lowered_aliases == LowerAll(aliases)
      lowered_vars == LowerAll(available_vars)
      first == FirstMatchingAlias(lowered_aliases, lowered_vars)
  IN  /\ (name = None) <=> (first = 0)
      /\ name # None =>
           /\ name \in Range(available_vars)
           /\ Lower(name) = lowered_aliases[first]
      /\ ChosenAlias(lowered_aliases,
           find_variable_case_insensitive(aliases, UpperAll(available_vars)))
         = first
      /\ ChosenAlias(lowered_aliases,
           find_variable_case_insensitive(aliases, lowered_vars))
         = first

C6_ResolverFirstAliasAnyCase ==
  pc = "resolved" =>
    /\ RoleResolved(pressure_aliases, CurFile.vars, resolved.pressure_var)
    /\ RoleResolved(temperature_aliases, CurFile.vars, resolved.temp_var)
    /\ RoleResolved(salinity_aliases, CurFile.vars, resolved.salinity_var)
    /\ RoleResolved(platform_aliases, CurFile.vars, resolved.platform_var_name)
    /\ RoleResolved(<<JULD>>, CurFile.vars, resolved.juld_var_name)
    /\ RoleResolved(<<LATITUDE>>, CurFile.vars, resolved.lat_var_name)
    /\ RoleResolved(<<LONGITUDE>>, CurFile.vars, resolved.lon_var_name)
    /\ RoleResolved(<<REFERENCE_DATE_TIME>>, CurFile.vars,
                    resolved.ref_date_var_name)

C6_Witness ==
  /\ pc = "resolved"
  /\ Len(CurFile.vars) >= 2
  /\ CurFile.vars[1] = Lower(PRES)
  /\ CurFile.vars[2] = Lower(PRES_ADJUSTED)
  /\ resolved.pressure_var = Lower(PRES_ADJUSTED)
  /\ resolved.temp_var = None

\* C7: when pressure, platform identifier, time offset, latitude, longitude
\* or reference date cannot be resolved, the file is rejected: the profile
\* loop is never entered and the call returns the empty list; a file whose
\* required roles all resolve enters the loop whether or not temperature and
\* salinity resolve.
C7_RequiredRoles ==
  (Running /\ CurFile.openable) =>
    /\ pc \in {"profile", "level"} => RequiredResolvable(CurFile)
    /\ (Returned /\ ~RequiredResolvable(CurFile)) =>
         visited = 0 /\ accepted = {} /\ all_rows = <<>> /\ returned = <<>>
    /\ (Returned /\ RequiredResolvable(CurFile)) =>
         visited = NumProfiles(CurFile)

C7_Witness ==
  /\ pc = "ret"
  /\ CurFile.openable
  /\ ~Resolvable(<<REFERENCE_DATE_TIME>>, CurFile.vars)
  /\ Resolvable(pressure_aliases, CurFile.vars)
  /\ Resolvable(platform_aliases, CurFile.vars)
  /\ Resolvable(<<JULD>>, CurFile.vars)
  /\ Resolvable(<<LATITUDE>>, CurFile.vars)
  /\ Resolvable(<<LONGITUDE>>, CurFile.vars)
  /\ visited = 0
  /\ returned = <<>>

\* C8 (as stated): for every level of an accepted profile with a present
\* non-negative pressure a row is emitted whatever the state of temperature
\* and salinity there; each of the two fields is absent exactly when its
\* variable is unresolved or its value is missing, and otherwise holds the
\* converted value.
OptionalAsStated(var_name, array, l, field) ==
  IF var_name = None \/ Missing(array, l) THEN field = NoneVal
  ELSE field # NoneVal /\ (Converts(array, l) => field = ValueAt(array, l))

OptionalConverts(var_name, array, l) ==
  var_name = None \/ Missing(array, l) \/ Converts(array, l)

RowCarriesProfile(n) ==
  LET idx  == row_src[n][1]
      prof == ProfileAt(CurFile, idx)
      row  == all_rows[n]
  IN  /\ idx \in accepted
      /\ row.platform_id =
           IF variant = "extract"
           THEN profile_locals_extract(CurFile, resolved, idx).platform_id
           ELSE profile_locals_ingest(CurFile, resolved, idx).platform_id
      /\ row.measurement_date =
           IF variant = "extract" THEN strftime(ProfileTime(CurFile, prof))
           ELSE ProfileTime(CurFile, prof)
      /\ row.latitude = CoordFloat(prof.lat)
      /\ row.longitude = CoordFloat(prof.lon)

\* rows stand in the order of their profiles and, within a profile, of
\* their levels, none twice
RowsInLevelOrder ==
  \A a, b \in DOMAIN row_src :
    a < b => \/ row_src[a][1] < row_src[b][1]
             \/ row_src[a][1] = row_src[b][1] /\ row_src[a][2] < row_src[b][2]

ScenarioARows ==
  (CurFile = ScenarioA /\ Returned) =>
    /\ Len(returned) = 2
    /\ returned[1].pressure_dbar = Fin(10)
    /\ returned[1].temperature_celsius = Fin(5)
    /\ returned[1].salinity_psu = NoneVal
    /\ returned[2].pressure_dbar = Fin(20)
    /\ returned[2].temperature_celsius = NoneVal
    /\ returned[2].salinity_psu = NoneVal

Survives(prof, l) ==
  /\ PressurePresentNonNegative(prof, l)
  /\ OptionalConverts(resolved.temp_var, prof.temp, l)
  /\ OptionalConverts(resolved.salinity_var, prof.sal, l)

C10_PlatformIdNeverEmpty ==
  Running => \A n \in DOMAIN all_rows : all_rows[n].platform_id # <<>>

\* C11: when the decoded platform id is empty or "None", the identifier is
\* the first run of 7-8 decimal digits of the file's name (Scenario E:
\* "nodc_D6902758_029.nc" gives "6902758"), and the name without its
\* extension if it has no such run; a decoded id that is neither empty nor
\* "None" is the identifier, whatever the file's name.
DigitRunStarts(name) ==
  {p \in 1..(Len(name) - 6) : \A q \in p..(p + 6) : IsDigit(name[q])}
NameWithoutExtension(name) == SubSeq(name, 1, Len(name) - Len(DotNc))
IdentifierFromName(name) ==
  IF DigitRunStarts(name) = {} THEN NameWithoutExtension(name)
  ELSE LET p == CHOOSE a \in DigitRunStarts(name) :
                  \A b \in DigitRunStarts(name) : a <= b
       IN  SubSeq(name, p,
                  IF p + 7 <= Len(name) /\ IsDigit(name[p + 7])
                  THEN p + 7 ELSE p + 6)
DecodedId(prof) ==
  IF variant = "extract" THEN platform_id_extract(prof.platform)
  ELSE platform_id_ingest(prof.platform)
IdentifierAsStated(file, prof) ==
  IF DecodedId(prof) = <<>> \/ DecodedId(prof) = NoneText
  THEN IdentifierFromName(file.name)
  ELSE DecodedId(prof)

C11_IdentifierFallback ==
  Running =>
    /\ pc = "level" =>
         loc.platform_id = IdentifierAsStated(CurFile, ProfileAt(CurFile, i))
    /\ \A n \in DOMAIN all_rows :
         all_rows[n].platform_id = IdentifierAsStated(CurFile, RowProfile(n))
    /\ (pc = "level" /\ CurFile.name = StdName
        /\ DecodedId(ProfileAt(CurFile, i)) = <<>>) =>
         loc.platform_id = <<"6","9","0","2","7","5","8">>

\* C12: a source handle is open exactly while its file is being read
\* (between nc.Dataset and the end of the with block): it is closed when the
\* per-file function has returned, by whatever path, hence before the next
\* file is opened, and never is more than one handle open.
C12_HandleScoped ==
  /\ handles \in {0, 1}
  /\ handles = 1 <=> pc \in {"resolved", "profile", "level"}

C12_Witness ==
  /\ fi = 2 /\ pc = "level" /\ handles = 1
  /\ nc_files[1].openable /\ ~RequiredResolvable(nc_files[1])
  /\ outcomes[1].rows = <<>>

\* every file of the list has had its iteration of main's loop, the
\* per-file function having returned each time
AllFilesAttempted == fi = Len(nc_files) + 1 /\ Len(outcomes) = Len(nc_files)

\* main has returned, normally or through its outer except
Finished == pc \in {"done", "main_error"}

\* Every step moves the program forward: to a later file, or within a file
\* to a later place, profile or level.  Each of these is bounded, so no run
\* goes on for ever.
Place(at) ==
  CASE at = "start" -> 0
    [] at = "main" -> 1
    [] at = "resolved" -> 2
    [] at \in {"profile", "level"} -> 3
    [] at = "ret" -> 4
    [] at = "commit" -> 5
    [] OTHER -> 6
Advances ==
  \/ fi' > fi
  \/ fi' = fi /\ Place(pc') > Place(pc)
  \/ /\ fi' = fi /\ Place(pc') = Place(pc)
     /\ \/ i' > i
        \/ i' = i /\ pc = "profile" /\ pc' = "level"
        \/ i' = i /\ pc' = pc /\ j' > j
\* Until main has returned some step is possible: in the profile loop an
\* iteration (whose outcome is one of accept, skip, error) or the loop's
\* end, elsewhere one of the other steps.
NeverStuck ==
  \/ Finished
  \/ /\ pc = "profile"
     /\ i <= NumProfiles(CurFile)
     /\ i < NumProfiles(CurFile) =>
          ProfileStatus \in {"accept", "skip", "error"}
     /\ i = NumProfiles(CurFile) => ENABLED CloseFile
  \/ /\ pc # "profile"
     /\ ENABLED (\/ NoFiles \/ StartLoop \/ OpenFails \/ OpenFile
                 \/ RejectFile \/ EnterLoop \/ EmitRow \/ SkipLevel
                 \/ EndProfile \/ Collect \/ NoData \/ InsertRows
                 \/ Commit \/ Summary)

ExtractionRaises(file, prof) ==
  \/ to_datetime(ref_date_str(file.ref)).k = "raise"
  \/ variant = "extract" /\ DecodedId(prof) = RaiseText
ProfileFails(file, prof) ==
  \/ prof.juld.k # "fin"
  \/ prof.lat.k # "fin" \/ prof.lon.k # "fin"
  \/ ExtractionRaises(file, prof)
  \/ /\ variant = "extract"
     /\ \/ ~InBox(prof)
        \/ ProfileTime(file, prof).k # "ts"
        \/ YearOf(ProfileTime(file, prof)) \notin year_min..year_max

C14_FailedProfileSkipped ==
  Running =>
    /\ \A idx \in accepted : ~ProfileFails(CurFile, ProfileAt(CurFile, idx))
    /\ \A n \in DOMAIN row_src : ~ProfileFails(CurFile, RowProfile(n))
    /\ RowsInLevelOrder
    /\ (Returned /\ CurFile.openable /\ RequiredResolvable(CurFile)) =>
         visited = NumProfiles(CurFile)

\* C15: a conversion failure at level l of an accepted profile (of a present
\* pressure, or of a resolved and present temperature or salinity) leaves
\* the level without a row and touches no other level: every level of the
\* profile is examined, and a level without a conversion failure has its row
\* exactly when its pressure is present and non-negative, the rows standing in
\* level order.
ConversionFails(prof, l) ==
  /\ ~Missing(prof.pres, l)
  /\ \/ ~Converts(prof.pres, l)
     \/ /\ NotNegative(ValueAt(prof.pres, l))
        /\ \/ ~OptionalConverts(resolved.temp_var, prof.temp, l)
           \/ ~OptionalConverts(resolved.salinity_var, prof.sal, l)

C15_ConversionFailureSkipsLevel ==
  Running =>
    /\ \A idx \in accepted :
         \A l \in LevelsDone(idx) :
           LET prof == ProfileAt(CurFile, idx)
           IN  IF ConversionFails(prof, l)
               THEN ~HasRow(idx, l)
               ELSE HasRow(idx, l) <=> PressurePresentNonNegative(prof, l)
    /\ \A idx \in accepted :
         idx < i => LevelsDone(idx) = 0..(ArrLen(ProfileAt(CurFile, idx).pres) - 1)
    /\ RowsInLevelOrder

\* C16: main of ingest_postgres_only persists each file's rows atomically:
\* the table holds, in file order, all the rows of the files whose insert
\* and commit went through and no row of any other file; a file whose insert
\* or commit raises leaves the table as it was and an empty transaction, and
\* main goes on to the next file; a commit appends exactly the rows
\* process_argo_file returned.
RECURSIVE CommittedRows(_)
CommittedRows(outs) ==
  IF outs = <<>> THEN <<>>
  ELSE CommittedRows(SubSeq(outs, 1, Len(outs) - 1))
         \o (IF outs[Len(outs)].kind = "committed"
             THEN outs[Len(outs)].rows ELSE <<>>)

FileDone(kind) ==
  /\ Len(outcomes') = Len(outcomes) + 1
  /\ outcomes'[Len(outcomes')].kind = kind

PersistedAtomically ==
  variant = "ingest" =>
    /\ db = CommittedRows(outcomes)
    /\ pending = (IF pc = "commit" THEN returned ELSE <<>>)

FileStepAtomic ==
  /\ FileDone("failed") =>
       /\ returned # <<>>
       /\ db' = db /\ pending' = <<>>
       /\ fi' = fi + 1 /\ pc' = "main"
  /\ FileDone("committed") =>
       /\ db' = db \o returned /\ pending' = <<>>
       /\ fi' = fi + 1 /\ pc' = "main"
  /\ \E n \in 0..Len(returned) : db' = db \o SubSeq(returned, 1, n)
  /\ Len(db') \in {Len(db), Len(db) + Len(returned)}

C16_AtomicPersist == []PersistedAtomically /\ [][FileStepAtomic]_vars

C16_Witness ==
  /\ summary /\ variant = "ingest"
  /\ Len(outcomes) = 2
  /\ outcomes[1].kind = "failed" /\ outcomes[1].rows # <<>>
  /\ outcomes[2].kind = "committed"
  /\ db = outcomes[2].rows /\ db # <<>>

\* C17: when main of ingest_postgres_only prints its summary,
\* files_with_data + files_without_data is the number of files in nc_files,
\* and total_rows is the number of rows of the files counted in
\* files_with_data, which is the number of rows committed.
KindCount(kind) ==
  Cardinality({n \in DOMAIN outcomes : outcomes[n].kind = kind})

C17_CountersCoverAllFiles ==
  (variant = "ingest" /\ summary) =>
    /\ files_with_data + files_without_data = Len(nc_files)
    /\ total_rows = Len(CommittedRows(outcomes))
    /\ total_rows = Len(db)

\* C17 (amended): files_with_data counts the files whose rows were committed,
\* files_without_data the files that gave no row, and a file whose insert or
\* commit raised is counted in neither: at the summary the two counters and
\* the number of such files add up to the number of files in nc_files;
\* total_rows is the number of rows of the files counted in files_with_data,
\* which is the number of rows committed.
C17_CountersExceptFailedFiles ==
  variant = "ingest" =>
    /\ files_with_data = KindCount("committed")
    /\ files_without_data = KindCount("nodata")
    /\ total_rows = Len(CommittedRows(outcomes))
    /\ total_rows = Len(db)
    /\ summary =>
         /\ Len(outcomes) = Len(nc_files)
         /\ files_with_data + files_without_data + KindCount("failed")
              = Len(nc_files)

C17_Witness ==
  /\ summary /\ variant = "ingest"
  /\ Len(nc_files) = 2
  /\ outcomes[1].kind = "committed"
  /\ outcomes[2].kind = "failed"
  /\ files_with_data = 1 /\ files_without_data = 0
  /\ total_rows = Len(outcomes[1].rows) /\ total_rows > 0

\* C18: for the same file, on the profiles with finite coordinates inside
\* the Indian Ocean box and a timestamp of a year in 2020..2025,
\* extract_indian_ocean_data_from_file and process_argo_file return the same
\* sequence of rows (platform_id, instant of the timestamp, latitude,
\* longitude, pressure, temperature, salinity): what the running variant
\* returned is what the other variant returns for that file.
InFilterRange(file, prof) ==
  /\ prof.lat.k = "fin" /\ prof.lon.k = "fin"
  /\ InBox(prof)
  /\ ProfileTime(file, prof).k = "ts"
  /\ YearOf(ProfileTime(file, prof)) \in year_min..year_max

\* the instant a 'YYYY-MM-DD HH:MM:SS' text denotes, and that of a Timestamp
InstantOfText(t) ==
  [day |-> DaysFromCivil(t[1], t[2], t[3]),
   ms |-> ((t[4] * 60 + t[5]) * 60 + t[6]) * 1000]
InstantOfTimestamp(ts) == [day |-> ts.day, ms |-> ts.ms]

ComparedFields(v, row) ==
  [platform_id |-> row.platform_id,
   instant |-> IF v = "extract" THEN InstantOfText(row.measurement_date)
               ELSE InstantOfTimestamp(row.measurement_date),
   latitude |-> row.latitude,
   longitude |-> row.longitude,
   pressure_dbar |-> row.pressure_dbar,
   temperature_celsius |-> row.temperature_celsius,
   salinity_psu |-> row.salinity_psu]

\* the rows variant v appends for the levels 0..n-1 of a profile
RECURSIVE LevelRows(_, _, _, _)
LevelRows(v, r, lc, n) ==
  IF n = 0 THEN <<>>
  ELSE LET status == IF v = "extract" THEN level_status_extract(r, lc, n - 1)
                     ELSE level_status_ingest(r, lc, n - 1)
           row    == IF v = "extract" THEN level_row_extract(r, lc, n - 1)
                     ELSE level_row_ingest(r, lc, n - 1)
       IN  LevelRows(v, r, lc, n - 1)
             \o (IF status = "row" THEN <<ComparedFields(v, row)>> ELSE <<>>)

\* the rows variant v appends for the profiles 0..n-1 of a file that lie in
\* the range of the filters
RECURSIVE ProfileRows(_, _, _, _)
ProfileRows(v, file, r, n) ==
  IF n = 0 THEN <<>>
  ELSE LET status == IF v = "extract" THEN profile_status_extract(file, r, n - 1)
                     ELSE profile_status_ingest(file, r, n - 1)
           lc     == IF v = "extract" THEN profile_locals_extract(file, r, n - 1)
                     ELSE profile_locals_ingest(file, r, n - 1)
       IN  ProfileRows(v, file, r, n - 1)
             \o (IF status = "accept"
                    /\ InFilterRange(file, ProfileAt(file, n - 1))
                 THEN LevelRows(v, r, lc, ArrLen(lc.pressure))
                 ELSE <<>>)

VariantRows(v, file) ==
  IF ~file.openable \/ missing_required(ResolveVariables(file.vars)) THEN <<>>
  ELSE ProfileRows(v, file, ResolveVariables(file.vars), NumProfiles(file))

\* the rows the running call returned for the profiles in the range of the
\* filters
RECURSIVE ReturnedInRange(_)
ReturnedInRange(n) ==
  IF n = 0 THEN <<>>
  ELSE ReturnedInRange(n - 1)
         \o (IF InFilterRange(CurFile, RowProfile(n))
             THEN <<ComparedFields(variant, returned[n])>> ELSE <<>>)

OtherVariant == IF variant = "extract" THEN "ingest" ELSE "extract"

C18_VariantsAgree ==
  pc = "ret" =>
    ReturnedInRange(Len(returned)) = VariantRows(OtherVariant, CurFile)

====
